---- MODULE Spec2Model ----
(***************************************************************************)
(* Model of packages/builders/src/test-cafe/test-cafe.builder.ts:          *)
(* TestCafeBuilder.run, startDevServer, initTestCafe and killProcess.      *)
(*                                                                         *)
(* JavaScript strings are sequences of one-character strings, so that      *)
(* split(':'), the scheme regular expression and the url parse/format      *)
(* round trip are computed and not assumed.  The external collaborators    *)
(* (architect, testcafe, tree-kill) are nondeterministic: every call may   *)
(* return, throw, resolve or reject.                                       *)
(***************************************************************************)
EXTENDS Integers, Sequences, FiniteSets, TLC

\* ------------------------------------------------------------------ bounds
MaxBuildEvents == 2
MaxFailed == 2
MaxKills == 3
MaxPid == 2

\* ------------------------------------------------------------ JS strings
\* The JS value undefined, where a string is expected.
Undefined == <<"undefined">>

\* JS truthiness of a string-or-undefined value.
Truthy(s) == s # Undefined /\ s # <<>>

HTTP == <<"h", "t", "t", "p">>
HTTPS == <<"h", "t", "t", "p", "s">>
SchemeSep == <<":", "/", "/">>

IsPrefix(p, s) == Len(p) <= Len(s) /\ SubSeq(s, 1, Len(p)) = p

\* String.prototype.toLowerCase on the alphabet of the model.
LowerChar(c) == IF c = "A" THEN "a" ELSE IF c = "H" THEN "h" ELSE c

Lower(s) == [i \in 1..Len(s) |-> LowerChar(s[i])]

\* Position of the first occurrence of character c in s at or after from,
\* Len(s) + 1 when there is none.
RECURSIVE IndexOf(_, _, _)
IndexOf(s, c, from) ==
  IF from > Len(s) THEN Len(s) + 1
  ELSE IF s[from] = c THEN from
  ELSE IndexOf(s, c, from + 1)

\* devServerTarget.split(':')
RECURSIVE split(_)
split(s) ==
  LET k == IndexOf(s, ":", 1)
  IN  IF k > Len(s) THEN <<s>>
      ELSE <<SubSeq(s, 1, k - 1)>> \o split(SubSeq(s, k + 1, Len(s)))

\* Array destructuring: a missing element is undefined.
At(parts, i) == IF i <= Len(parts) THEN parts[i] ELSE Undefined

DigitChars == <<"0", "1", "2", "3", "4", "5", "6", "7", "8", "9">>

\* Number.prototype.toString() of a non-negative integer.
RECURSIVE toString(_)
toString(n) ==
  IF n < 10 THEN <<DigitChars[n + 1]>>
  ELSE toString(n \div 10) \o <<DigitChars[(n % 10) + 1]>>

\* The class \w of the regular expression, on the alphabet of the model.
WordChars ==
  {"a", "A", "h", "H", "i", "o", "p", "s", "t", "x", "_"}
    \cup {DigitChars[i] : i \in 1..10}

\* /^\w+:\/\//.test(publicHost)
hasScheme(s) ==
  \E k \in 1..Len(s) :
    /\ k + 3 <= Len(s)
    /\ \A i \in 1..k : s[i] \in WordChars
    /\ SubSeq(s, k + 1, k + 3) = SchemeSep

\* url.format(url.parse(s)) for s of the form proto://host[/path] with a
\* slashed protocol: protocol and host are lower-cased, an empty path
\* becomes "/".
urlParseFormat(s) ==
  LET c == IndexOf(s, ":", 1)
      rest == SubSeq(s, c + 3, Len(s))
      p == IndexOf(rest, "/", 1)
      hostPart == SubSeq(rest, 1, p - 1)
      pathPart == SubSeq(rest, p, Len(rest))
  IN  Lower(SubSeq(s, 1, c - 1)) \o SchemeSep \o Lower(hostPart)
        \o (IF pathPart = <<>> THEN <<"/">> ELSE pathPart)

\* url.format({ protocol, hostname, port })
urlFormat(protocol, hostname, port) ==
  protocol \o SchemeSep \o hostname \o <<":">> \o port

\* ---------------------------------------------------------------- inputs
\* Values of options.devServerTarget: unset, empty, well formed with and
\* without a configuration, and malformed (no target segment).
TargetPT == <<"p", ":", "t">>
TargetPTC == <<"p", ":", "t", ":", "x">>
TargetP == <<"p">>

DevServerTargets == {Undefined, <<>>, TargetPT, TargetPTC, TargetP}

HostLocal == <<"h", "o", "s", "t">>
HostIp == <<"0", ".", "0", ".", "0", ".", "0">>

PublicHosts ==
  { Undefined,
    <<>>,
    <<"a", ".", "i", "o">>,
    <<"A", ".", "i", "o", "/", "x">>,
    <<"h", "t", "t", "p", "s", ":", "/", "/", "a", ".", "i", "o">>,
    <<"H", "t", "t", "p", ":", "/", "/", "a", ".", "i", "o", "/", "x">> }

\* Values of options.port: a number.
Ports == {80, 4200}

\* The dev-server target's own options as declared in angular.json.
DevServerOptions ==
  [ watch : BOOLEAN,
    ssl : BOOLEAN,
    host : {HostLocal, HostIp},
    port : Ports,
    publicHost : PublicHosts ]

NoOptions ==
  [watch |-> FALSE, ssl |-> FALSE, host |-> Undefined, port |-> 0,
   publicHost |-> Undefined]

NoTargetSpec ==
  [project |-> Undefined, target |-> Undefined, configuration |-> Undefined,
   overrides |-> [watch |-> FALSE], defined |-> FALSE]

FailedCounts == (0 - MaxFailed)..MaxFailed

\* Ports of createTestCafe('localhost', 1337, 1338).
Port1 == 1337
Port2 == 1338

\* tscProcess = null
NoProcess == 0

VARIABLES
  pc,                      \* position of the upstream pipeline of run
  devServerTarget,         \* options.devServerTarget of this invocation
  targetSpec,              \* targetSpec built by startDevServer
  builderConfig,           \* result of architect.getBuilderConfiguration
  validated,               \* validateBuilderOptions has emitted
  archRun,                 \* architect.run was invoked
  computedTestCafeBaseUrl, \* the private field
  buildEvents,             \* build events emitted by architect.run
  buffer,                  \* values buffered by concatMap
  active,                  \* concatMap has a subscribed inner observable
  buildDone,               \* the outer observable of concatMap completed
  sessions,                \* one record per initTestCafe call
  out,                     \* what the subscriber of run has seen at the end
  events,                  \* the { success } events delivered to it
  errors,                  \* the errors delivered to it
  tscProcess,              \* the private field
  pendingKills,            \* treeKill calls whose callback has not run
  signals,                 \* signals sent by treeKill
  logged,                  \* messages passed to context.logger.error
  killCalls,               \* calls of killProcess
  killThrown,              \* calls of killProcess that threw
  lastKill                 \* the last callback of treeKill

runVars ==
  <<pc, devServerTarget, targetSpec, builderConfig, validated, archRun,
    computedTestCafeBaseUrl, buildEvents, buffer, active, buildDone,
    sessions, out, events, errors>>

guardVars ==
  <<tscProcess, pendingKills, signals, logged, killCalls, killThrown,
    lastKill>>

vars == <<runVars, guardVars>>

NoError == [isArray |-> FALSE, e0 |-> "", e2 |-> "", message |-> "", null |-> TRUE]

Init ==
  /\ pc = "idle"
  /\ devServerTarget = Undefined
  /\ targetSpec = NoTargetSpec
  /\ builderConfig = [defined |-> FALSE, options |-> NoOptions]
  /\ validated = FALSE
  /\ archRun = FALSE
  /\ computedTestCafeBaseUrl = Undefined
  /\ buildEvents = 0
  /\ buffer = 0
  /\ active = FALSE
  /\ buildDone = FALSE
  /\ sessions = <<>>
  /\ out = "none"
  /\ events = <<>>
  /\ errors = 0
  /\ tscProcess = NoProcess
  /\ pendingKills = <<>>
  /\ signals = <<>>
  /\ logged = <<>>
  /\ killCalls = 0
  /\ killThrown = 0
  /\ lastKill = [count |-> 0, error |-> NoError, before |-> <<>>]

\* ------------------------------------------------- TestCafeBuilder.run
\* The argument isWatching of the call this.startDevServer(target, false).
isWatching == FALSE

\* Variant: the build is never the dev server.
buildSourceNoServer(target) == "of"

\* options.devServerTarget ? this.startDevServer(...) : of(null)
buildSource(target) == IF Truthy(target) THEN "devServer" ELSE "of"

\* The targetSpec literal of startDevServer.
makeTargetSpec(target, watching) ==
  LET parts == split(target)
  IN  [project |-> At(parts, 1),
       target |-> At(parts, 2),
       configuration |-> At(parts, 3),
       overrides |-> [watch |-> watching],
       defined |-> TRUE]

\* Variant of the callback of tap: the scheme test is not negated.
tapSchemeTestInverted(target, options, old) ==
  IF Truthy(target) /\ Truthy(options.publicHost)
    THEN LET publicHost ==
               IF hasScheme(options.publicHost)
                 THEN (IF options.ssl THEN HTTPS ELSE HTTP) \o SchemeSep
                        \o options.publicHost
                 ELSE options.publicHost
         IN  urlParseFormat(publicHost)
  ELSE IF Truthy(target)
    THEN urlFormat(IF options.ssl THEN HTTPS ELSE HTTP, options.host,
                   toString(options.port))
  ELSE old

\* The callback of tap: the value of computedTestCafeBaseUrl after it.
tap(target, options, old) ==
  IF Truthy(target) /\ Truthy(options.publicHost)
    THEN LET publicHost ==
               IF ~hasScheme(options.publicHost)
                 THEN (IF options.ssl THEN HTTPS ELSE HTTP) \o SchemeSep
                        \o options.publicHost
                 ELSE options.publicHost
         IN  urlParseFormat(publicHost)
  ELSE IF Truthy(target)
    THEN urlFormat(IF options.ssl THEN HTTPS ELSE HTTP, options.host,
                   toString(options.port))
  ELSE old

\* Variant: any count that is not positive is a success.
successNotPositive(failedCount) == failedCount <= 0

\* { success: failedCount === 0 }
success(failedCount) == failedCount = 0

\* createTestCafe('localhost', 1337, 1338) was called: a session is being
\* created, its promise is pending.
NewSession ==
  [st |-> "creating", tc |-> FALSE, closeCalls |-> 0, stage |-> "none",
   ports |-> <<Port1, Port2>>, failedCount |-> 0]

\* initTestCafe is called by the project function of concatMap.
initTestCafe ==
  /\ sessions' = Append(sessions, NewSession)
  /\ active' = TRUE

\* catchError(error => { throw new Error(error); }): an error of the
\* pipeline reaches the subscriber of run as one error.
catchError ==
  /\ out' = "error"
  /\ errors' = errors + 1
  /\ events' = events

\* run(builderConfig), with the synchronous part of startDevServer: the
\* target string is split, the overrides are set and
\* architect.getBuilderConfiguration returns or throws.
run(target, opts, cfg) ==
  /\ pc = "idle"
  /\ devServerTarget' = target
  /\ IF buildSource(target) = "devServer"
       THEN /\ targetSpec' = makeTargetSpec(target, isWatching)
            /\ IF cfg = "throw"
                 THEN /\ pc' = "thrown"
                      /\ out' = "thrown"
                      /\ UNCHANGED builderConfig
                 ELSE /\ pc' = "returned"
                      /\ builderConfig' =
                           [defined |-> TRUE,
                            options |->
                              [opts EXCEPT
                                 !.watch = targetSpec'.overrides.watch]]
                      /\ UNCHANGED out
       ELSE /\ pc' = "returned"
            /\ UNCHANGED <<targetSpec, builderConfig, out>>
  /\ UNCHANGED <<validated, archRun, computedTestCafeBaseUrl, buildEvents,
                 buffer, active, buildDone, sessions, events, errors>>
  /\ UNCHANGED guardVars

\* The caller subscribes to the observable run returned.  of(null) emits
\* and completes at once; the dev-server pipeline starts with
\* architect.getBuilderDescription.
subscribe ==
  /\ pc = "returned"
  /\ out = "none"
  /\ out' = "open"
  /\ IF builderConfig.defined
       THEN /\ pc' = "describing"
            /\ UNCHANGED <<sessions, active, buildDone>>
       ELSE /\ pc' = "ofDone"
            /\ initTestCafe
            /\ buildDone' = TRUE
  /\ UNCHANGED <<devServerTarget, targetSpec, builderConfig, validated,
                 archRun, computedTestCafeBaseUrl, buildEvents, buffer,
                 events, errors>>
  /\ UNCHANGED guardVars

\* architect.getBuilderDescription emits or fails.  A target string with
\* no target segment names no builder.
getBuilderDescription(ok) ==
  /\ pc = "describing"
  /\ out = "open"
  /\ ok => targetSpec.target # Undefined
  /\ IF ok
       THEN /\ pc' = "validating"
            /\ UNCHANGED <<out, events, errors>>
       ELSE /\ pc' = "failed"
            /\ catchError
  /\ UNCHANGED <<devServerTarget, targetSpec, builderConfig, validated,
                 archRun, computedTestCafeBaseUrl, buildEvents, buffer,
                 active, buildDone, sessions>>
  /\ UNCHANGED guardVars

\* architect.validateBuilderOptions emits or fails; when it emits, tap
\* records the base URL and concatMap invokes architect.run.
validateBuilderOptions(ok) ==
  /\ pc = "validating"
  /\ out = "open"
  /\ IF ok
       THEN /\ pc' = "building"
            /\ validated' = TRUE
            /\ computedTestCafeBaseUrl' =
                 tap(devServerTarget, builderConfig.options,
                     computedTestCafeBaseUrl)
            /\ archRun' = TRUE
            /\ UNCHANGED <<out, events, errors>>
       ELSE /\ pc' = "failed"
            /\ catchError
            /\ UNCHANGED <<validated, computedTestCafeBaseUrl, archRun>>
  /\ UNCHANGED <<devServerTarget, targetSpec, builderConfig, buildEvents,
                 buffer, active, buildDone, sessions>>
  /\ UNCHANGED guardVars

\* Variant with mergeMap for concatMap: every build event calls
\* initTestCafe.
buildEventMerge ==
  /\ pc = "building"
  /\ out = "open"
  /\ buildEvents < MaxBuildEvents
  /\ buildEvents' = buildEvents + 1
  /\ initTestCafe
  /\ UNCHANGED buffer
  /\ UNCHANGED <<pc, devServerTarget, targetSpec, builderConfig, validated,
                 archRun, computedTestCafeBaseUrl, buildDone, out, events,
                 errors>>
  /\ UNCHANGED guardVars

\* architect.run emits a build event: concatMap calls initTestCafe when it
\* has no inner observable, and buffers the event when it has one.
buildEvent ==
  /\ pc = "building"
  /\ out = "open"
  /\ buildEvents < MaxBuildEvents
  /\ buildEvents' = buildEvents + 1
  /\ IF active
       THEN /\ buffer' = buffer + 1
            /\ UNCHANGED <<sessions, active>>
       ELSE /\ initTestCafe
            /\ UNCHANGED buffer
  /\ UNCHANGED <<pc, devServerTarget, targetSpec, builderConfig, validated,
                 archRun, computedTestCafeBaseUrl, buildDone, out, events,
                 errors>>
  /\ UNCHANGED guardVars

\* architect.run fails: the error passes concatMap and take at once.
buildError ==
  /\ pc = "building"
  /\ out = "open"
  /\ pc' = "buildFailed"
  /\ catchError
  /\ UNCHANGED <<devServerTarget, targetSpec, builderConfig, validated,
                 archRun, computedTestCafeBaseUrl, buildEvents, buffer,
                 active, buildDone, sessions>>
  /\ UNCHANGED guardVars

\* architect.run completes: concatMap completes when it has no inner
\* observable and nothing buffered.
buildComplete ==
  /\ pc = "building"
  /\ out = "open"
  /\ pc' = "built"
  /\ buildDone' = TRUE
  /\ out' = IF ~active /\ buffer = 0 THEN "complete" ELSE out
  /\ UNCHANGED <<devServerTarget, targetSpec, builderConfig, validated,
                 archRun, computedTestCafeBaseUrl, buildEvents, buffer,
                 active, sessions, events, errors>>
  /\ UNCHANGED guardVars

\* Variant without take(1): the event is passed on, the inner observable
\* completes and concatMap goes on with the next buffered build event.
deliverNoTake(ss, ev) ==
  IF out = "open"
    THEN /\ events' = Append(events, ev)
         /\ UNCHANGED errors
         /\ IF buffer > 0
              THEN /\ sessions' = Append(ss, NewSession)
                   /\ buffer' = buffer - 1
                   /\ UNCHANGED <<active, out>>
              ELSE /\ sessions' = ss
                   /\ active' = FALSE
                   /\ out' = IF buildDone THEN "complete" ELSE out
                   /\ UNCHANGED buffer
    ELSE /\ sessions' = ss
         /\ UNCHANGED <<active, buffer, out, events, errors>>

\* ----------------------------------------- TestCafeBuilder.initTestCafe
\* fromPromise passes the resolved event on and take(1) passes the first
\* one to the subscriber of run, completes and unsubscribes from the
\* pipeline.  ss is the value of sessions after the promise settled.
deliver(ss, ev) ==
  /\ sessions' = ss
  /\ UNCHANGED <<active, buffer>>
  /\ IF out = "open"
       THEN /\ events' = Append(events, ev)
            /\ out' = "complete"
            /\ UNCHANGED errors
       ELSE UNCHANGED <<out, events, errors>>

\* Variant: a rejection is reported as a failed test run.
rejectAsFailure(ss) == deliver(ss, [success |-> FALSE])

\* fromPromise passes the rejection on as an error of the pipeline.
reject(ss) ==
  /\ sessions' = ss
  /\ UNCHANGED <<active, buffer>>
  /\ IF out = "open"
       THEN catchError
       ELSE UNCHANGED <<out, events, errors>>

\* createTestCafe resolves: the first then-callback keeps the session and
\* configures and starts the runner, which may throw.
createTestCafeResolve(i, configured) ==
  /\ i \in DOMAIN sessions
  /\ sessions[i].st = "creating"
  /\ IF configured
       THEN /\ sessions' =
                 [sessions EXCEPT ![i].tc = TRUE, ![i].st = "running"]
            /\ UNCHANGED <<active, buffer, out, events, errors>>
       ELSE reject([sessions EXCEPT ![i].tc = TRUE, ![i].st = "rejected",
                                    ![i].stage = "configure"])
  /\ UNCHANGED <<pc, devServerTarget, targetSpec, builderConfig, validated,
                 archRun, computedTestCafeBaseUrl, buildEvents, buildDone>>
  /\ UNCHANGED guardVars

\* createTestCafe rejects: no then-callback runs.
createTestCafeReject(i) ==
  /\ i \in DOMAIN sessions
  /\ sessions[i].st = "creating"
  /\ reject([sessions EXCEPT ![i].st = "rejected", ![i].stage = "create"])
  /\ UNCHANGED <<pc, devServerTarget, targetSpec, builderConfig, validated,
                 archRun, computedTestCafeBaseUrl, buildEvents, buildDone>>
  /\ UNCHANGED guardVars

\* runner.run() resolves with the failure count: the second then-callback
\* calls testCafe.close() and returns the event, unless close throws.
runnerResolve(i, failedCount, closed) ==
  /\ i \in DOMAIN sessions
  /\ sessions[i].st = "running"
  /\ LET called == [sessions EXCEPT
                      ![i].closeCalls = @ + 1,
                      ![i].failedCount = failedCount]
     IN  IF closed
           THEN deliver([called EXCEPT ![i].st = "resolved"],
                        [success |-> success(failedCount)])
           ELSE reject([called EXCEPT ![i].st = "rejected",
                                      ![i].stage = "close"])
  /\ UNCHANGED <<pc, devServerTarget, targetSpec, builderConfig, validated,
                 archRun, computedTestCafeBaseUrl, buildEvents, buildDone>>
  /\ UNCHANGED guardVars

\* runner.run() rejects: the second then-callback is skipped.
runnerReject(i) ==
  /\ i \in DOMAIN sessions
  /\ sessions[i].st = "running"
  /\ reject([sessions EXCEPT ![i].st = "rejected", ![i].stage = "run"])
  /\ UNCHANGED <<pc, devServerTarget, targetSpec, builderConfig, validated,
                 archRun, computedTestCafeBaseUrl, buildEvents, buildDone>>
  /\ UNCHANGED guardVars

Next ==
  \/ \E target \in DevServerTargets, opts \in DevServerOptions,
        cfg \in {"ok", "throw"} : run(target, opts, cfg)
  \/ subscribe
  \/ \E ok \in BOOLEAN : getBuilderDescription(ok)
  \/ \E ok \in BOOLEAN : validateBuilderOptions(ok)
  \/ buildEvent
  \/ buildError
  \/ buildComplete
  \/ \E i \in 1..MaxBuildEvents, configured \in BOOLEAN :
        createTestCafeResolve(i, configured)
  \/ \E i \in 1..MaxBuildEvents : createTestCafeReject(i)
  \/ \E i \in 1..MaxBuildEvents, failedCount \in FailedCounts,
        closed \in BOOLEAN : runnerResolve(i, failedCount, closed)
  \/ \E i \in 1..MaxBuildEvents : runnerReject(i)

Spec == Init /\ [][Next]_vars

\* -------------------------------------------- TestCafeBuilder.killProcess
\* The error values tree-kill may pass to its callback: none, or a value
\* that is an array or not, with truthy or falsy elements 0 and 2 and a
\* truthy or falsy message field ("" stands for a falsy or missing one).
Errors ==
  {NoError} \cup
    [isArray : BOOLEAN, e0 : {"", "x"}, e2 : {"", "m2"},
     message : {"", "m1"}, null : {FALSE}]

\* The messages the callback of treeKill passes to context.logger.error.
logError(error) ==
  IF error.null THEN <<>>
  ELSE IF error.isArray /\ error.e0 # "" /\ error.e2 # "" THEN <<error.e2>>
  ELSE IF error.message # "" THEN <<error.message>>
  ELSE <<>>

\* A subprocess is spawned and its handle is kept in tscProcess.
spawnProcess(pid) ==
  /\ tscProcess = NoProcess
  /\ tscProcess' = pid
  /\ UNCHANGED <<pendingKills, signals, logged, killCalls, killThrown,
                 lastKill>>
  /\ UNCHANGED runVars

\* killProcess(): reads this.tscProcess.pid, which throws a TypeError when
\* tscProcess is null, and hands the pid to treeKill with SIGTERM.
killProcess ==
  /\ killCalls < MaxKills
  /\ killCalls' = killCalls + 1
  /\ IF tscProcess = NoProcess
       THEN /\ killThrown' = killThrown + 1
            /\ UNCHANGED <<signals, pendingKills>>
       ELSE /\ signals' =
                 Append(signals, [pid |-> tscProcess, signal |-> "SIGTERM"])
            /\ pendingKills' = Append(pendingKills, tscProcess)
            /\ UNCHANGED killThrown
  /\ UNCHANGED <<tscProcess, logged, lastKill>>
  /\ UNCHANGED runVars

\* Variant of the callback of treeKill: the handle is cleared only when
\* the termination reported no error.
treeKillCallbackKeepsOnError(k, error) ==
  /\ k \in DOMAIN pendingKills
  /\ pendingKills' =
       SubSeq(pendingKills, 1, k - 1)
         \o SubSeq(pendingKills, k + 1, Len(pendingKills))
  /\ tscProcess' = IF error.null THEN NoProcess ELSE tscProcess
  /\ logged' = logged \o logError(error)
  /\ lastKill' =
       [count |-> lastKill.count + 1, error |-> error, before |-> logged]
  /\ UNCHANGED <<signals, killCalls, killThrown>>
  /\ UNCHANGED runVars

\* The callback of treeKill: clears the handle, then logs.
treeKillCallback(k, error) ==
  /\ k \in DOMAIN pendingKills
  /\ pendingKills' =
       SubSeq(pendingKills, 1, k - 1)
         \o SubSeq(pendingKills, k + 1, Len(pendingKills))
  /\ tscProcess' = NoProcess
  /\ logged' = logged \o logError(error)
  /\ lastKill' =
       [count |-> lastKill.count + 1, error |-> error, before |-> logged]
  /\ UNCHANGED <<signals, killCalls, killThrown>>
  /\ UNCHANGED runVars

GuardNext ==
  \/ \E pid \in 1..MaxPid : spawnProcess(pid)
  \/ killProcess
  \/ \E k \in 1..MaxKills, error \in Errors : treeKillCallback(k, error)

GuardSpec == Init /\ [][GuardNext]_vars

\* ================================================================ claims
Terminal == out \in {"complete", "error", "thrown"}

Configured == Truthy(devServerTarget)

\* C1 (as stated): once an invocation of run has ended, it has delivered
\* exactly one { success } event.
C1_ExactlyOneSuccess == Terminal => Len(events) = 1

\* C1 (amended): an invocation of run delivers at most one { success }
\* event, however many build events the dev-server target emits, and
\* architect.run is only ever started with watch forced to false; when the
\* invocation has ended it has delivered one event exactly when the
\* pipeline completed with a resolved TestCafe session, and none when it
\* ended with an error or the build completed without a build event.
C1_AtMostOneSuccess ==
  /\ Len(events) <= 1
  /\ archRun => builderConfig.options.watch = FALSE
  /\ Terminal =>
       (Len(events) = 1 <=>
          (out = "complete"
             /\ \E i \in DOMAIN sessions : sessions[i].st = "resolved"))

C1_Witness ==
  /\ out = "complete"
  /\ Len(events) = 1
  /\ buildEvents >= 2
  /\ Configured

\* C2: with a devServerTarget configured, a TestCafe session is created
\* only after the options were validated, the base URL was recorded,
\* architect.run was started and it emitted a build event.
C2_SessionAfterBuild ==
  (Configured /\ sessions # <<>>) =>
    /\ validated
    /\ computedTestCafeBaseUrl # Undefined
    /\ archRun
    /\ buildEvents >= 1

C2_Witness ==
  /\ Configured
  /\ sessions # <<>>
  /\ sessions[1].tc

\* C3 (as stated): when the resolution of the dev-server target or the
\* validation of its options fails, architect.run is not invoked, no base
\* URL is recorded, no session is created and run ends with a stream
\* error and no { success } event.
C3_SetupFailureIsStreamError ==
  pc \in {"thrown", "failed"} =>
    /\ ~archRun
    /\ computedTestCafeBaseUrl = Undefined
    /\ sessions = <<>>
    /\ events = <<>>
    /\ out = "error"
    /\ errors = 1

\* C4 (as stated): every TestCafe session that was created and whose
\* promise chain has settled had close() called on it exactly once.
C4_ClosedExactlyOnce ==
  \A i \in DOMAIN sessions :
    (sessions[i].tc /\ sessions[i].st \in {"resolved", "rejected"})
      => sessions[i].closeCalls = 1

\* C5: a rejection while the session is created or while the runner is
\* configured and run ends the invocation with exactly one error and no
\* { success } event, and close() is not called on the session.
C5_RejectionAbortsWithoutClose ==
  \A i \in DOMAIN sessions :
    (sessions[i].st = "rejected"
       /\ sessions[i].stage \in {"create", "configure", "run"})
      => /\ sessions[i].closeCalls = 0
         /\ events = <<>>
         /\ out = "error"
         /\ errors = 1

C5_Witness ==
  \E i \in DOMAIN sessions :
    /\ sessions[i].st = "rejected"
    /\ sessions[i].stage = "run"
    /\ sessions[i].tc
    /\ pc # "buildFailed"

\* C6: the success flag of the delivered event is true exactly when the
\* failure count runner.run() resolved with is 0, and a resolved run is
\* delivered as an event and not as an error, whatever the count.
C6_SuccessIffZeroFailures ==
  \A i \in DOMAIN sessions :
    sessions[i].st = "resolved" =>
      /\ events # <<>> =>
           /\ events[1].success = (sessions[i].failedCount = 0)
           /\ errors = 0
      /\ pc # "buildFailed" => (out = "complete" /\ Len(events) = 1)

C6_Witness ==
  \E i \in DOMAIN sessions :
    /\ sessions[i].st = "resolved"
    /\ sessions[i].failedCount < 0
    /\ events = <<[success |-> FALSE]>>

\* The decimal text of the ports of the model.
PortText(port) ==
  IF port = 80 THEN <<"8", "0">> ELSE <<"4", "2", "0", "0">>

\* The value has a scheme:// prefix of its own.
OwnScheme(s) ==
  \/ IsPrefix(HTTP \o SchemeSep, Lower(s))
  \/ IsPrefix(HTTPS \o SchemeSep, Lower(s))

\* C7: once the options are validated the base URL is set: with a
\* publicHost it is that host, with its own scheme when it has one and
\* otherwise with https:// when ssl is set and http:// when not; with no
\* publicHost it is scheme://host:port.  Before that, and when no
\* devServerTarget is configured, it is unset, and a run with no
\* devServerTarget goes on to the TestCafe session.
C7_BaseUrl ==
  LET o == builderConfig.options
      scheme == (IF o.ssl THEN HTTPS ELSE HTTP) \o SchemeSep
  IN  /\ validated =>
            IF Truthy(o.publicHost)
              THEN IF OwnScheme(o.publicHost)
                     THEN IsPrefix(Lower(o.publicHost),
                                   computedTestCafeBaseUrl)
                     ELSE IsPrefix(scheme \o Lower(o.publicHost),
                                   computedTestCafeBaseUrl)
              ELSE computedTestCafeBaseUrl =
                     scheme \o o.host \o <<":">> \o PortText(o.port)
      /\ ~validated => computedTestCafeBaseUrl = Undefined
      /\ (pc # "idle" /\ ~Configured) =>
            /\ ~validated
            /\ out # "none" => sessions # <<>>

C7_Witness ==
  /\ validated
  /\ ~builderConfig.options.ssl
  /\ builderConfig.options.publicHost =
       <<"h", "t", "t", "p", "s", ":", "/", "/", "a", ".", "i", "o">>
  /\ computedTestCafeBaseUrl =
       <<"h", "t", "t", "p", "s", ":", "/", "/", "a", ".", "i", "o", "/">>

\* What the claim says is logged for an error value.
C8_Logged(error) ==
  IF error.null THEN <<>>
  ELSE IF error.isArray /\ error.e0 # "" /\ error.e2 # ""
    THEN <<error.e2>>
  ELSE IF error.message # "" THEN <<error.message>>
  ELSE <<>>

\* C8: killProcess on a held handle sends SIGTERM for the pid of the
\* handle and does not throw; when the termination reports back, with or
\* without an error, the handle is cleared, nothing is thrown and the log
\* grows by element 2 of a list error with elements 0 and 2, by the
\* message of an error with a message, and by nothing otherwise.
C8_TerminateClearsAndLogs ==
  [][ /\ (killCalls' = killCalls + 1 /\ tscProcess # NoProcess) =>
           /\ signals' =
                Append(signals, [pid |-> tscProcess, signal |-> "SIGTERM"])
           /\ killThrown' = killThrown
      /\ lastKill'.count = lastKill.count + 1 =>
           /\ tscProcess' = NoProcess
           /\ killThrown' = killThrown
           /\ logged' = logged \o C8_Logged(lastKill'.error)
    ]_vars

C8_Witness ==
  /\ lastKill.count >= 1
  /\ ~lastKill.error.null
  /\ lastKill.error.isArray
  /\ tscProcess = NoProcess
  /\ logged = lastKill.before \o <<"m2">>
  /\ killThrown = 0

\* C9 (as stated): killProcess on a cleared handle does not throw, does
\* not log and leaves the handle as it was.
C9_TerminateIdempotent ==
  [][ (killCalls' = killCalls + 1 /\ tscProcess = NoProcess) =>
        /\ killThrown' = killThrown
        /\ logged' = logged
        /\ tscProcess' = tscProcess
    ]_vars

\* A session holds the two ports from its creation until close().
HoldsPorts(i) == sessions[i].tc /\ sessions[i].closeCalls = 0

\* C10: an invocation of run creates at most one TestCafe session,
\* however many build events arrive, so no two sessions hold the ports
\* 1337 and 1338 at once.
C10_AtMostOneSession ==
  /\ Len(sessions) <= 1
  /\ \A i \in DOMAIN sessions : sessions[i].ports = <<1337, 1338>>
  /\ \A i, j \in DOMAIN sessions :
       (HoldsPorts(i) /\ HoldsPorts(j)) => i = j

C10_Witness ==
  /\ buffer >= 1
  /\ Len(sessions) = 1
  /\ HoldsPorts(1)

====
